---- MODULE Spec2Model ----
(***************************************************************************)
(* Model of legistar/base/detailview.py: the DetailVisitor that groups the *)
(* elements of a detail page by the slug of their aspx id, its finalize    *)
(* step, the TextRenderer, and the DetailField accessors.                  *)
(*                                                                         *)
(* Strings are sequences of symbols.  A symbol is one character ("A", ":", *)
(* " ", "nbsp" for U+00A0) or one of the words "_hyp", "_lbl", "_td",      *)
(* "Not", "available", "/pdf.gif", ... taken as a unit.  No symbol is a    *)
(* prefix of another and no concatenation of other symbols spells a word,  *)
(* so two strings are equal exactly when their symbol sequences are.       *)
(*                                                                         *)
(* A node is a record, as the visited tree's nodes are mappings: the       *)
(* attribute "id" is present exactly when "id" is in the record's DOMAIN.  *)
(***************************************************************************)
EXTENDS Integers, Sequences, FiniteSets, TLC

VARIABLES
    visited,   \* the nodes DetailVisitor has been handed so far, in pre-order
    data,      \* DetailVisitor.data: slug -> dict with keys among label, node, url
    order,     \* insertion order of the keys of DetailVisitor.data
    pc,        \* "visiting", "raised" (a handler raised), "finalized"
    exc,       \* the exception a handler raised, or "none"
    newdata,   \* the mapping finalize returns: key -> DetailField
    ret,       \* the result of the last DetailField accessor call
    rTree,     \* TextRenderer: the node being rendered
    rPos,      \* TextRenderer: how many enter/exit events have run
    buf,       \* TextRenderer.buf
    log,       \* TextRenderer: the fragments written so far (history)
    mDesc,     \* get_mimetype: self.node.parent.find(), in document order
    mPos,      \* get_mimetype: index of the descendant the loop is at
    mRet       \* get_mimetype: its outcome, or "running"

vars == <<visited, data, order, pc, exc, newdata, ret,
          rTree, rPos, buf, log, mDesc, mPos, mRet>>

travVars == <<visited, data, order, pc, exc, newdata, ret>>
rendVars == <<rTree, rPos, buf, log>>
mimeVars == <<mDesc, mPos, mRet>>

\* Longest pre-order sequence of nodes handed to DetailVisitor.
MaxNodes == 2
\* Most children of the root of a rendered tree.
MaxKids == 2
\* Most descendants of the parent node scanned by get_mimetype.
MaxDesc == 3

-----------------------------------------------------------------------------
(* Strings                                                                 *)

NBSP == "nbsp"
Whitespace == {" ", NBSP}

Min(S) == CHOOSE x \in S : \A y \in S : x <= y
Max(S) == CHOOSE x \in S : \A y \in S : x >= y

\* str.strip(chars): drop the leading and trailing characters in C.
StripChars(s, C) ==
    LET keep == {i \in 1..Len(s) : s[i] \notin C}
    IN  IF keep = {} THEN <<>> ELSE SubSeq(s, Min(keep), Max(keep))

\* str.strip(): Python's whitespace includes U+00A0.
Strip(s) == StripChars(s, Whitespace)

\* str.replace('\xa0', ' ')
ReplaceNbsp(s) == [i \in 1..Len(s) |-> IF s[i] = NBSP THEN " " ELSE s[i]]

\* dict with one more key (d[k] = v)
Put(d, k, v) == (k :> v) @@ d

-----------------------------------------------------------------------------
(* The regular expressions of the handlers.  A failed search is <<>>; a    *)
(* group is never empty, because (.+) and (.+?) take at least one symbol.  *)

\* re.search(marker + r'(.+)', id).group(1)
SearchRest(id, marker) ==
    LET at == {i \in 1..Len(id) : id[i] = marker /\ i < Len(id)}
    IN  IF at = {} THEN <<>> ELSE SubSeq(id, Min(at) + 1, Len(id))

\* re.search(r'_lbl(.+?)X', id).group(1)
SearchLabel(id) ==
    LET at == {i \in 1..Len(id) :
                 id[i] = "_lbl" /\ \E j \in (i + 2)..Len(id) : id[j] = "X"}
    IN  IF at = {} THEN <<>>
        ELSE LET i == Min(at)
                 j == Min({k \in (i + 2)..Len(id) : id[k] = "X"})
             IN  SubSeq(id, i + 1, j - 1)

-----------------------------------------------------------------------------
(* TextRenderer                                                            *)

\* dict.get(key, '')
GetOr(node, key) == IF key \in DOMAIN node THEN node[key] ELSE <<>>

scrub_text(text) == Strip(ReplaceNbsp(text))

\* generic_visit with the space written only before a non-empty text
GenericVisitEnterSkipEmpty(b, node) ==
    LET t == scrub_text(GetOr(node, "text"))
    IN  IF b # <<>> /\ t # <<>> THEN b \o <<" ">> \o t ELSE b \o t

\* generic_visit up to its yield: the separating space, then the text.
GenericVisitEnter(b, node) ==
    LET b1 == IF b # <<>> THEN b \o <<" ">> ELSE b
    IN  b1 \o scrub_text(GetOr(node, "text"))

\* generic_visit after its yield: the tail.
GenericVisitExit(b, node) == b \o scrub_text(GetOr(node, "tail"))

RECURSIVE RenderInto(_, _)
RECURSIVE RenderKids(_, _, _)
\* The visit of one node: enter, the children in order, exit.
RenderInto(b, node) ==
    GenericVisitExit(RenderKids(GenericVisitEnter(b, node), node.children, 1), node)
RenderKids(b, kids, i) ==
    IF i > Len(kids) THEN b ELSE RenderKids(RenderInto(b, kids[i]), kids, i + 1)

\* TextRenderer().visit(node): a fresh buffer, the traversal, finalize.
Render(node) == RenderInto(<<>>, node)

-----------------------------------------------------------------------------
(* The documents: the nodes a traversal may be handed.                     *)

El(tag) == [tag |-> tag, children |-> <<>>]
With(node, k, v) == Put(node, k, v)

MkId(marker, slug) == <<"c", marker>> \o slug
SlugA == <<"A">>
SlugB == <<"B">>

\* "Not available", the blank placeholder of _is_blank_placeholder
NotAvailable == <<"Not", " ", "available">>

AnchorNodes ==
    {With(El("a"), "href", <<"/u">>),
     With(El("a"), "id", MkId("_hyp", SlugA)),
     With(With(El("a"), "id", <<"c", "_hyp">>), "href", <<"/u">>),
     With(With(With(El("a"), "id", MkId("_hyp", SlugB)), "href", <<"/w">>),
          "text", <<" ", "V", ":">>)}
    \cup {With(With(With(El("a"), "id", MkId("_hyp", SlugA)), "href", <<"/u">>), "text", t) :
            t \in {<<" ", "V", ":">>, <<"B">>}}

\* The children of a label span: none, one without text, one with text.
LabelKids ==
    {<<>>, <<El("b")>>, <<With(El("b"), "text", <<"B">>)>>,
     <<With(El("b"), "text", <<" ", "L", ":", NBSP>>)>>}

SpanNodes ==
    {El("span")}
    \cup {[With(El("span"), "id", MkId("_lbl", SlugA \o <<"X">>)) EXCEPT !.children = k] :
            k \in LabelKids}
    \cup {[With(With(El("span"), "id", MkId("_lbl", SlugA)), "text", <<"Not">>)
             EXCEPT !.children = <<With(El("b"), "text", <<"available">>)>>],
          With(With(With(El("span"), "id", MkId("_td", SlugA)),
                    "text", NotAvailable), "tail", <<"V">>),
          With(El("span"), "id", <<"c">>),
          With(El("span"), "id", MkId("_lbl", SlugA \o <<"_td">> \o SlugB))}

TdNodes ==
    {El("td"),
     With(With(El("td"), "id", MkId("_td", SlugA)), "text", <<NBSP>> \o NotAvailable),
     [With(El("td"), "id", MkId("_td", SlugB))
        EXCEPT !.children = <<With(With(El("a"), "href", <<"/v">>), "text", <<"V">>)>>],
     With(El("td"), "id", MkId("_lbl", SlugA))}

OtherNodes == {With(El("div"), "id", MkId("_td", SlugA))}

-----------------------------------------------------------------------------
(* DetailVisitor: the handlers.  A handler takes the accumulation          *)
(* st = [data, order, exc] and the node with its handle h, and gives the   *)
(* accumulation after it; exc # "none" when it raised.                     *)

\* self.data[key] on the defaultdict(dict): the entry is created when missing.
Touch(st, key) ==
    IF key \in DOMAIN st.data THEN st
    ELSE [st EXCEPT !.data = Put(st.data, key, <<>>), !.order = Append(st.order, key)]

\* self.data[key][attr] = val
SetItem(st, key, attr, val) ==
    LET t == Touch(st, key)
    IN  [t EXCEPT !.data = [t.data EXCEPT ![key] = Put(@, attr, val)]]

Raise(st, e) == [st EXCEPT !.exc = e]

\* visit_a without the "if 'label' not in data" guard
visit_a_overwrite(st, node, h) ==
    IF "id" \notin DOMAIN node THEN st
    ELSE IF "href" \notin DOMAIN node THEN st
    ELSE LET key == SearchRest(node.id, "_hyp")
         IN  IF key = <<>> THEN st
             ELSE SetItem(SetItem(SetItem(Touch(st, key), key, "url", node.href),
                                  key, "node", h),
                          key, "label", StripChars(Strip(Render(node)), {":"}))

\* visit_a without the href guard, reading node.get('href', '')
visit_a_nohref(st, node, h) ==
    IF "id" \notin DOMAIN node THEN st
    ELSE LET key == SearchRest(node.id, "_hyp")
         IN  IF key = <<>> THEN st
             ELSE LET s1 == SetItem(SetItem(Touch(st, key), key, "url",
                                            GetOr(node, "href")),
                                    key, "node", h)
                  IN  IF "label" \notin DOMAIN s1.data[key]
                      THEN SetItem(s1, key, "label",
                                   StripChars(Strip(Render(node)), {":"}))
                      ELSE s1

visit_a(st, node, h) ==
    IF "id" \notin DOMAIN node THEN st
    ELSE IF "href" \notin DOMAIN node THEN st
    ELSE LET key == SearchRest(node.id, "_hyp")
         IN  IF key = <<>> THEN st
             ELSE LET s1 == SetItem(SetItem(Touch(st, key), key, "url", node.href),
                                    key, "node", h)
                  IN  IF "label" \notin DOMAIN s1.data[key]
                      THEN SetItem(s1, key, "label",
                                   StripChars(Strip(Render(node)), {":"}))
                      ELSE s1

\* the first rule of visit_span: the label span
visit_span_label(st, node, key) ==
    IF Len(node.children) = 0 THEN Raise(st, "IndexError")
    ELSE IF "text" \notin DOMAIN node.children[1] THEN Raise(st, "KeyError")
    ELSE SetItem(st, key, "label",
                 StripChars(Strip(node.children[1].text), {":"}))

visit_span(st, node, h) ==
    IF "id" \notin DOMAIN node THEN st
    ELSE IF SearchLabel(node.id) # <<>>
         THEN visit_span_label(st, node, SearchLabel(node.id))
    ELSE IF SearchRest(node.id, "_lbl") # <<>>
         THEN SetItem(st, SearchRest(node.id, "_lbl"), "node", h)
    ELSE IF SearchRest(node.id, "_td") # <<>>
         THEN SetItem(st, SearchRest(node.id, "_td"), "node", h)
    ELSE st

\* visit_td keeping a node that is already set (first writer wins)
visit_td_first(st, node, h) ==
    IF "id" \notin DOMAIN node THEN st
    ELSE IF SearchRest(node.id, "_td") = <<>> THEN st
    ELSE LET key == SearchRest(node.id, "_td")
         IN  IF key \in DOMAIN st.data /\ "node" \in DOMAIN st.data[key] THEN st
             ELSE SetItem(st, key, "node", h)

visit_td(st, node, h) ==
    IF "id" \notin DOMAIN node THEN st
    ELSE IF SearchRest(node.id, "_td") = <<>> THEN st
    ELSE SetItem(st, SearchRest(node.id, "_td"), "node", h)

-----------------------------------------------------------------------------
(* DetailVisitor.finalize                                                  *)

\* cfg.make_child(DetailField, data): instance number inst wrapping the dict
\* of slug.
MakeChild(inst, slug) == [inst |-> inst, slug |-> slug]

RECURSIVE FinalizeLoop(_, _, _)
\* newdata after the first i iterations over self.data.items()
FinalizeLoop(d, ord, i) ==
    IF i = 0 THEN <<>>
    ELSE LET prev    == FinalizeLoop(d, ord, i - 1)
             id_attr == ord[i]
             rec     == d[id_attr]
             alias   == StripChars(IF "label" \in DOMAIN rec THEN rec.label
                                   ELSE id_attr, {":"})
             value   == MakeChild(i, id_attr)
             new1    == Put(prev, alias, value)
         IN  IF alias # id_attr THEN Put(new1, id_attr, value) ELSE new1

finalize(d, ord) == FinalizeLoop(d, ord, Len(ord))

-----------------------------------------------------------------------------
(* DetailField accessors                                                   *)

NoRet == [op |-> "none", key |-> <<>>, kind |-> "None", val |-> <<>>]

\* the placeholder test as text.startswith('Not available')
_is_blank_placeholder_prefix(text) ==
    Len(text) >= Len(NotAvailable) /\ SubSeq(text, 1, Len(NotAvailable)) = NotAvailable

_is_blank_placeholder(text) == text = NotAvailable

\* get_text on the field wrapping rec; nodes maps a handle to its node.
get_text(rec, nodes) ==
    IF "node" \notin DOMAIN rec THEN [kind |-> "KeyError", val |-> <<>>]
    ELSE LET text == Render(nodes[rec.node])
         IN  IF ~_is_blank_placeholder(text) THEN [kind |-> "value", val |-> text]
             ELSE [kind |-> "None", val |-> <<>>]

RECURSIVE Descendants(_)
RECURSIVE DescKids(_, _)
\* node.find(): the descendants in document order
Descendants(node) == DescKids(node.children, 1)
DescKids(kids, i) ==
    IF i > Len(kids) THEN <<>>
    ELSE <<kids[i]>> \o Descendants(kids[i]) \o DescKids(kids, i + 1)

get_url(rec, nodes) ==
    IF "node" \notin DOMAIN rec THEN [kind |-> "KeyError", val |-> <<>>]
    ELSE LET ds   == Descendants(nodes[rec.node])
             hits == {i \in 1..Len(ds) : "href" \in DOMAIN ds[i]}
         IN  IF hits = {} THEN [kind |-> "None", val |-> <<>>]
             ELSE [kind |-> "value", val |-> ds[Min(hits)].href]

-----------------------------------------------------------------------------
(* The traversal as a state machine                                        *)

Acc == [data |-> data, order |-> order, exc |-> "none"]

\* One handler call: the node is appended to the history and the handler's
\* result becomes the accumulation; a raise ends the traversal.
Handle(node, st) ==
    /\ visited' = Append(visited, node)
    /\ data' = st.data
    /\ order' = st.order
    /\ exc' = st.exc
    /\ pc' = IF st.exc = "none" THEN "visiting" ELSE "raised"
    /\ UNCHANGED <<newdata, ret>>

CanVisit == pc = "visiting" /\ Len(visited) < MaxNodes

VisitA ==
    /\ CanVisit
    /\ \E node \in AnchorNodes : Handle(node, visit_a(Acc, node, Len(visited) + 1))
    /\ UNCHANGED <<rendVars, mimeVars>>

VisitSpan ==
    /\ CanVisit
    /\ \E node \in SpanNodes : Handle(node, visit_span(Acc, node, Len(visited) + 1))
    /\ UNCHANGED <<rendVars, mimeVars>>

VisitTd ==
    /\ CanVisit
    /\ \E node \in TdNodes : Handle(node, visit_td(Acc, node, Len(visited) + 1))
    /\ UNCHANGED <<rendVars, mimeVars>>

\* A tag without a handler: the default visit, no effect.
VisitOther ==
    /\ CanVisit
    /\ \E node \in OtherNodes : Handle(node, Acc)
    /\ UNCHANGED <<rendVars, mimeVars>>

\* Visitor.visit returns self.finalize() once the traversal is over.
Finalize ==
    /\ pc = "visiting"
    /\ pc' = "finalized"
    /\ newdata' = finalize(data, order)
    /\ UNCHANGED <<visited, data, order, exc, ret>>
    /\ UNCHANGED <<rendVars, mimeVars>>

GetText ==
    /\ pc = "finalized"
    /\ \E k \in DOMAIN newdata :
         LET r == get_text(data[newdata[k].slug], visited)
         IN  ret' = [op |-> "get_text", key |-> k, kind |-> r.kind, val |-> r.val]
    /\ UNCHANGED <<visited, data, order, pc, exc, newdata>>
    /\ UNCHANGED <<rendVars, mimeVars>>

GetUrl ==
    /\ pc = "finalized"
    /\ \E k \in DOMAIN newdata :
         LET r == get_url(data[newdata[k].slug], visited)
         IN  ret' = [op |-> "get_url", key |-> k, kind |-> r.kind, val |-> r.val]
    /\ UNCHANGED <<visited, data, order, pc, exc, newdata>>
    /\ UNCHANGED <<rendVars, mimeVars>>

RendIdle == rTree = El("none") /\ rPos = 0 /\ buf = <<>> /\ log = <<>>
MimeIdle == mDesc = <<>> /\ mPos = 0 /\ mRet = "idle"

Init ==
    /\ visited = <<>>
    /\ data = <<>>
    /\ order = <<>>
    /\ pc = "visiting"
    /\ exc = "none"
    /\ newdata = <<>>
    /\ ret = NoRet
    /\ RendIdle
    /\ MimeIdle

Next == VisitA \/ VisitSpan \/ VisitTd \/ VisitOther \/ Finalize \/ GetText \/ GetUrl

Spec == Init /\ [][Next]_vars

-----------------------------------------------------------------------------
(* TextRenderer step by step: one step per half of generic_visit.          *)

\* The order in which the traversal runs the two halves of generic_visit:
\* a node's first half, its children, its second half.
RECURSIVE Events(_)
RECURSIVE EventsKids(_, _)
Events(node) ==
    <<[kind |-> "enter", node |-> node]>> \o EventsKids(node.children, 1)
        \o <<[kind |-> "exit", node |-> node]>>
EventsKids(kids, i) ==
    IF i > Len(kids) THEN <<>> ELSE Events(kids[i]) \o EventsKids(kids, i + 1)

\* The text and tail attributes a rendered node may carry, besides none.
FragTexts == {<<NBSP, " ">>, <<" ", "V", NBSP>>}
FragTails == {<<"W">>}

WithOpt(nodes, k, vals) == nodes \cup {With(n, k, v) : n \in nodes, v \in vals}

RenderLeaves == WithOpt(WithOpt({El("b")}, "text", FragTexts), "tail", FragTails)

RenderKidsOf ==
    RenderLeaves \cup {[El("i") EXCEPT !.children = <<With(El("b"), "text", <<"V">>)>>]}

SeqsUpTo(S, n) == UNION {[1..m -> S] : m \in 0..n}

RenderTrees ==
    {[r EXCEPT !.children = k] :
        r \in WithOpt(WithOpt({El("span")}, "text", FragTexts), "tail", FragTails),
        k \in SeqsUpTo(RenderKidsOf, MaxKids)}

TravIdle ==
    /\ visited = <<>> /\ data = <<>> /\ order = <<>> /\ pc = "idle"
    /\ exc = "none" /\ newdata = <<>> /\ ret = NoRet

RenderEvent == Events(rTree)[rPos + 1]

\* generic_visit, lines before the yield
RenderEnter ==
    /\ rPos < Len(Events(rTree))
    /\ RenderEvent.kind = "enter"
    /\ buf' = GenericVisitEnter(buf, RenderEvent.node)
    /\ log' = Append(log, [kind |-> "text",
                           frag |-> scrub_text(GetOr(RenderEvent.node, "text"))])
    /\ rPos' = rPos + 1
    /\ UNCHANGED <<rTree, travVars, mimeVars>>

\* generic_visit, lines after the yield
RenderExit ==
    /\ rPos < Len(Events(rTree))
    /\ RenderEvent.kind = "exit"
    /\ buf' = GenericVisitExit(buf, RenderEvent.node)
    /\ log' = Append(log, [kind |-> "tail",
                           frag |-> scrub_text(GetOr(RenderEvent.node, "tail"))])
    /\ rPos' = rPos + 1
    /\ UNCHANGED <<rTree, travVars, mimeVars>>

RenderDone == rTree # El("none") /\ rPos = Len(Events(rTree))

InitRender ==
    /\ rTree \in RenderTrees
    /\ rPos = 0
    /\ buf = <<>>
    /\ log = <<>>
    /\ TravIdle
    /\ MimeIdle

NextRender == RenderEnter \/ RenderExit

SpecRender == InitRender /\ [][NextRender]_vars

-----------------------------------------------------------------------------
(* DetailField.get_mimetype step by step                                   *)

\* cfg.MIMETYPE_GIF_PDF, the path of the icon that marks a PDF
MIMETYPE_GIF_PDF == <<"/pdf.gif">>

\* urlparse(url).path: what follows the scheme and the network location, up
\* to the query or the fragment.
UrlPath(url) ==
    LET a    == IF Len(url) >= 1 /\ url[1] = "http:" THEN 2 ELSE 1
        b    == IF a <= Len(url) /\ url[a] = "//h" THEN a + 1 ELSE a
        cuts == {i \in b..Len(url) : url[i] \in {"?", "#"}}
        e    == IF cuts = {} THEN Len(url) ELSE Min(cuts) - 1
    IN  SubSeq(url, b, e)

\* mimetypes.get(path): an unknown path gives None
mimetype_lookup_get(path) ==
    IF path = MIMETYPE_GIF_PDF THEN "application/pdf" ELSE "None"

\* mimetypes[path] on the one-entry table
mimetype_lookup(path) ==
    IF path = MIMETYPE_GIF_PDF THEN "application/pdf" ELSE "KeyError"

MimeSrcs ==
    {<<"/pdf.gif">>, <<"/pdf.gif", "?", "v">>, <<"http:", "//h", "/pdf.gif", "#", "v">>,
     <<"/doc.gif">>, <<"http:", "//h", "/doc.gif">>}

MimeElems ==
    {El("img"), El("a"), With(El("script"), "src", <<"/pdf.gif">>)}
    \cup {With(El("img"), "src", u) : u \in MimeSrcs}

\* the loop is at a descendant the filter(tag='img') drops
MimeFilter ==
    /\ mRet = "running"
    /\ mPos <= Len(mDesc)
    /\ mDesc[mPos].tag # "img"
    /\ mPos' = mPos + 1
    /\ UNCHANGED <<mDesc, mRet, travVars, rendVars>>

\* if 'src' not in descendant: continue
MimeContinue ==
    /\ mRet = "running"
    /\ mPos <= Len(mDesc)
    /\ mDesc[mPos].tag = "img"
    /\ "src" \notin DOMAIN mDesc[mPos]
    /\ mPos' = mPos + 1
    /\ UNCHANGED <<mDesc, mRet, travVars, rendVars>>

\* the first image with a src: the lookup returns or raises
MimeLookup ==
    /\ mRet = "running"
    /\ mPos <= Len(mDesc)
    /\ mDesc[mPos].tag = "img"
    /\ "src" \in DOMAIN mDesc[mPos]
    /\ mRet' = mimetype_lookup(UrlPath(mDesc[mPos].src))
    /\ UNCHANGED <<mDesc, mPos, travVars, rendVars>>

\* the loop ends: the method returns None
MimeExhausted ==
    /\ mRet = "running"
    /\ mPos > Len(mDesc)
    /\ mRet' = "None"
    /\ UNCHANGED <<mDesc, mPos, travVars, rendVars>>

InitMime ==
    /\ mDesc \in SeqsUpTo(MimeElems, MaxDesc)
    /\ mPos = 1
    /\ mRet = "running"
    /\ TravIdle
    /\ RendIdle

NextMime == MimeFilter \/ MimeContinue \/ MimeLookup \/ MimeExhausted

SpecMime == InitMime /\ [][NextMime]_vars

-----------------------------------------------------------------------------
(* Properties                                                              *)

\* The record of the DetailField under key k of the finalized mapping.
RecordOf(k) == data[newdata[k].slug]

\* The node the latest handler call was given.
LastVisited == visited[Len(visited)]
Stepped == Len(visited') = Len(visited) + 1
IdOf(node) == GetOr(node, "id")

\* C1: finalize loses no slug: every slug of the accumulation is the slug
\* of the DetailField under at least one key of the returned mapping.
C1_NoSlugLost ==
    pc = "finalized" =>
        \A s \in DOMAIN data : \E k \in DOMAIN newdata : newdata[k].slug = s

\* C2: after finalize every labelled slug's record is under its stripped
\* label and, when that differs from the slug, under the slug too, and the
\* two keys hold the same DetailField instance.
C2_LabelledUnderBothKeys ==
    pc = "finalized" =>
        \A s \in DOMAIN data :
            "label" \in DOMAIN data[s] =>
                LET alias == StripChars(data[s].label, {":"})
                IN  /\ alias \in DOMAIN newdata
                    /\ newdata[alias].slug = s
                    /\ alias # s => /\ s \in DOMAIN newdata
                                    /\ newdata[s] = newdata[alias]

LabelKept(s) ==
    /\ s \in DOMAIN data'
    /\ "label" \in DOMAIN data'[s]
    /\ data'[s].label = data[s].label

RECURSIVE JoinNonEmpty(_)
JoinNonEmpty(i) ==
    IF i = 0 THEN <<>>
    ELSE LET prev == JoinNonEmpty(i - 1)
         IN  IF log[i].frag = <<>> THEN prev
             ELSE IF prev = <<>> THEN log[i].frag
             ELSE prev \o <<" ">> \o log[i].frag

\* One space before the text of every node entered on a non-empty buffer,
\* none before a tail.
RECURSIVE JoinEntered(_)
JoinEntered(i) ==
    IF i = 0 THEN <<>>
    ELSE LET prev == JoinEntered(i - 1)
         IN  IF log[i].kind = "text" /\ prev # <<>>
             THEN prev \o <<" ">> \o log[i].frag
             ELSE prev \o log[i].frag

\* C4 as stated: exactly one space separates two non-empty fragments and an
\* empty fragment adds no space.
C4_SingleSpaces == buf = JoinNonEmpty(Len(log))

\* C4 as amended: exactly one space is written before the scrubbed text of
\* every node visited while the buffer is non-empty, also when that text is
\* empty, and none before a tail.
C4_SpacePerEnteredNode == buf = JoinEntered(Len(log))

\* A finished render in which a node with an empty text was entered on a
\* non-empty buffer, between two nodes with non-empty texts.
C4_Witness ==
    /\ RenderDone
    /\ \E i, j, k \in 1..Len(log) :
         /\ i < j /\ j < k
         /\ log[i].kind = "text" /\ log[i].frag # <<>>
         /\ log[j].kind = "text" /\ log[j].frag = <<>>
         /\ log[k].kind = "text" /\ log[k].frag # <<>>

\* C5: get_text and get_url on a field whose record has no node raise no
\* error.
C5_AccessorsDegrade ==
    (ret.op \in {"get_text", "get_url"} /\ "node" \notin DOMAIN RecordOf(ret.key))
        => ret.kind # "KeyError"

\* C6: no handler raises, so that the traversal runs to completion.
C6_TraversalCompletes == pc # "raised"

\* C7: get_text returns None exactly when the text rendered from its node
\* is "Not available", and the rendered text itself otherwise.
C7_GetText ==
    (ret.op = "get_text" /\ "node" \in DOMAIN RecordOf(ret.key)) =>
        LET text == Render(visited[RecordOf(ret.key).node])
        IN  /\ ret.kind = "None" <=> text = NotAvailable
            /\ text # NotAvailable => ret.kind = "value" /\ ret.val = text

\* get_text returned a text that starts with the placeholder and goes on.
C7_Witness ==
    /\ ret.op = "get_text"
    /\ ret.kind = "value"
    /\ Len(ret.val) > Len(NotAvailable)
    /\ SubSeq(ret.val, 1, Len(NotAvailable)) = NotAvailable

\* The images with a src among the scanned descendants.
MimeImages == {i \in 1..Len(mDesc) : mDesc[i].tag = "img" /\ "src" \in DOMAIN mDesc[i]}

\* C8: get_mimetype decides on the first image with a src: 'application/pdf'
\* when its path is the PDF marker, a lookup error otherwise, None when
\* there is no such image; it never looks past that image.
C8_Mimetype ==
    /\ mRet \in {"running", "idle"} =>
           \A i \in MimeImages : mPos <= i
    /\ mRet \notin {"running", "idle"} =>
           IF MimeImages = {} THEN mRet = "None"
           ELSE /\ mPos = Min(MimeImages)
                /\ mRet = IF UrlPath(mDesc[mPos].src) = MIMETYPE_GIF_PDF
                          THEN "application/pdf" ELSE "KeyError"

\* The lookup failed on the first image although a later image has the PDF
\* marker as its path.
C8_Witness ==
    /\ mRet = "KeyError"
    /\ \E j \in MimeImages : j > mPos /\ UrlPath(mDesc[j].src) = MIMETYPE_GIF_PDF

\* The slug whose node a visit of this node sets, <<>> when it sets none:
\* the node-setting rules, by tag.
NodeRuleSlug(node) ==
    IF "id" \notin DOMAIN node THEN <<>>
    ELSE IF node.tag = "a"
         THEN IF "href" \in DOMAIN node THEN SearchRest(node.id, "_hyp") ELSE <<>>
    ELSE IF node.tag = "span"
         THEN IF SearchLabel(node.id) # <<>> THEN <<>>
              ELSE IF SearchRest(node.id, "_lbl") # <<>> THEN SearchRest(node.id, "_lbl")
              ELSE SearchRest(node.id, "_td")
    ELSE IF node.tag = "td" THEN SearchRest(node.id, "_td")
    ELSE <<>>

Writers(s) == {i \in 1..Len(visited) : NodeRuleSlug(visited[i]) = s}

LastWriterWins ==
    /\ \A i \in 1..Len(visited) :
         NodeRuleSlug(visited[i]) # <<>> => NodeRuleSlug(visited[i]) \in DOMAIN data
    /\ \A s \in DOMAIN data :
         IF Writers(s) = {} THEN "node" \notin DOMAIN data[s]
         ELSE "node" \in DOMAIN data[s] /\ data[s].node = Max(Writers(s))

AttributesKept ==
    \A s \in DOMAIN data : s \in DOMAIN data' /\ DOMAIN data[s] \subseteq DOMAIN data'[s]

\* C9: after every step of a traversal the node of a slug's record is the
\* last visited node that matched a node-setting rule for the slug, whatever
\* its tag, and no step removes an attribute from a record.
C9_LastWriterWins == [][LastWriterWins' /\ AttributesKept]_vars

\* The traversal ended with the node of slug A set by a td and then by an
\* element of another tag.
C9_Witness ==
    /\ pc = "finalized"
    /\ \E i, j \in Writers(SlugA) :
         /\ i < j
         /\ visited[i].tag = "td" /\ visited[j].tag # "td"
         /\ data[SlugA].node = j

NoEmptyRecord ==
    \A s \in DOMAIN data :
        /\ DOMAIN data[s] # {}
        /\ "url" \in DOMAIN data[s] => {"node", "label"} \subseteq DOMAIN data[s]

\* no pattern of any handler matches the id
MatchesNoPattern(id) ==
    /\ SearchRest(id, "_hyp") = <<>>
    /\ SearchLabel(id) = <<>>
    /\ SearchRest(id, "_lbl") = <<>>
    /\ SearchRest(id, "_td") = <<>>

Ignored(node) ==
    \/ node.tag = "a" /\ ("id" \notin DOMAIN node \/ "href" \notin DOMAIN node)
    \/ "id" \in DOMAIN node /\ MatchesNoPattern(node.id)

\* C10: no record of the accumulation is ever empty, a record with a url
\* has a node and a label too, and a visit of an anchor without id or href,
\* or of a node whose id matches no pattern, leaves the accumulation as it
\* was.
C10_Accumulation ==
    [][/\ NoEmptyRecord'
       /\ (Stepped /\ Ignored(LastVisited')) => (data' = data /\ order' = order)]_vars

\* A record with a url exists and the last node visited was an anchor of
\* its slug that lacks the href.
C10_Witness ==
    /\ pc = "visiting"
    /\ Len(visited) >= 2
    /\ LastVisited.tag = "a"
    /\ "href" \notin DOMAIN LastVisited
    /\ SearchRest(IdOf(LastVisited), "_hyp") \in DOMAIN data
    /\ "url" \in DOMAIN data[SearchRest(IdOf(LastVisited), "_hyp")]

====
